---- MODULE Spec2Model ----
(***************************************************************************)
(* Fruit Jam Store (src/code.py): the category / page / dialog state       *)
(* machine of the storefront, its page loader with the on-disk file cache, *)
(* and the two polling tasks that drive it.                                *)
(*                                                                         *)
(* Text is modelled as a sequence of strings: repository names, which the  *)
(* code takes apart character by character, are sequences of one-character *)
(* strings; fixed messages are one-element sequences.                      *)
(***************************************************************************)
EXTENDS Integers, Sequences, FiniteSets, TLC

VARIABLES
    pc,                     \* "boot", "loaded", "running", "crashed", "reset"
    exception,              \* the exception that ended the program, "none" otherwise
    SCALE,                  \* display scale, line 82
    catalog_doc,            \* the remote catalog document (fixed for a run)
    installed_apps,         \* names of the directories under /sd/apps (fixed for a run)
    applications,           \* the loaded catalog, line 203
    selected_category,      \* line 216
    current_page,           \* line 419
    selected_application,   \* line 537
    category_selected,      \* labels of the category buttons whose .selected is set
    category_group_hidden,  \* category_group.hidden
    item_grid_hidden,       \* item_grid.hidden
    left_tg_hidden,         \* left_tg.hidden
    right_tg_hidden,        \* right_tg.hidden
    dialog_group_hidden,    \* dialog_group.hidden
    dialog_content,         \* dialog_content.text
    slots,                  \* the PAGE_SIZE item groups of the grid, by add order
    status_label,           \* status_label.text
    page_label,             \* page_label.text, <<page, pages>> for "page/pages"
    cache,                  \* files under /sd/.cache: path -> content
    faults,                 \* faulty network responses so far (bounded by MaxFaults)
    wget_count,             \* network requests issued so far
    mouse,                  \* whether mouse_task holds a mouse
    timeouts,               \* mouse_task's timeouts
    previous_mouse_state,   \* mouse_task's previous_mouse_state
    left_down,              \* the left button, as the mouse last reported it
    last_call,              \* the handler the last step dispatched, with its argument
    load,                   \* the page load mouse_task is in the middle of, if any:
                            \* the index of its next item, and where it ends
    short_name,             \* a repository short name (for the derivation of titles)
    titles                  \* what the title derivation gave for short_name, and
                            \* then for its own result

vars == <<pc, exception, SCALE, catalog_doc, installed_apps, applications,
          selected_category, current_page, selected_application, category_selected,
          category_group_hidden, item_grid_hidden, left_tg_hidden, right_tg_hidden,
          dialog_group_hidden, dialog_content, slots, status_label, page_label,
          cache, faults, wget_count, mouse, timeouts,
          previous_mouse_state, left_down, last_call, load, short_name, titles>>

-----------------------------------------------------------------------------
(* Bounds and program constants *)

\* at most this many network responses of a run are faulty
MaxFaults == 1

\* PAGE_ROWS, line 96
PAGE_ROWS == 3

\* the idle limit of mouse_task, line 599
MOUSE_TIMEOUTS == 60

PAGE_COLUMNS == SCALE

PAGE_SIZE == PAGE_COLUMNS * PAGE_ROWS

\* None, for selected_category
NoCategory == "None"

\* None, for selected_application
NoApplication == << >>

-----------------------------------------------------------------------------
(* Strings *)

LowerLetters == <<"a","b","c","d","e","f","g","h","i","j","k","l","m",
                  "n","o","p","q","r","s","t","u","v","w","x","y","z">>

UpperLetters == <<"A","B","C","D","E","F","G","H","I","J","K","L","M",
                  "N","O","P","Q","R","S","T","U","V","W","X","Y","Z">>

\* str.upper() of one character
Upper(c) ==
    IF \E i \in 1..26 : LowerLetters[i] = c
    THEN UpperLetters[CHOOSE i \in 1..26 : LowerLetters[i] = c]
    ELSE c

\* str.lower() of one character
Lower(c) ==
    IF \E i \in 1..26 : UpperLetters[i] = c
    THEN LowerLetters[CHOOSE i \in 1..26 : UpperLetters[i] = c]
    ELSE c

\* s.replace(a, b) for one-character a and b
Replace(s, a, b) == [i \in 1..Len(s) |-> IF s[i] = a THEN b ELSE s[i]]

RECURSIVE LStrip(_)
LStrip(s) == IF s # << >> /\ Head(s) = " " THEN LStrip(Tail(s)) ELSE s

RECURSIVE RStrip(_)
RStrip(s) ==
    IF s # << >> /\ s[Len(s)] = " " THEN RStrip(SubSeq(s, 1, Len(s) - 1)) ELSE s

\* s.strip()
Strip(s) == RStrip(LStrip(s))

\* s.split(sep): the pieces between the separators, empty pieces kept
RECURSIVE Split(_, _)
Split(s, sep) ==
    IF \E i \in 1..Len(s) : s[i] = sep
    THEN LET i == CHOOSE k \in 1..Len(s) :
                      s[k] = sep /\ \A j \in 1..(k - 1) : s[j] # sep
         IN  <<SubSeq(s, 1, i - 1)>> \o Split(SubSeq(s, i + 1, Len(s)), sep)
    ELSE <<s>>

\* sep.join(parts)
RECURSIVE Join(_, _)
Join(parts, sep) ==
    IF parts = << >> THEN << >>
    ELSE IF Len(parts) = 1 THEN parts[1]
    ELSE parts[1] \o <<sep>> \o Join(Tail(parts), sep)

\* s.startswith(prefix)
StartsWith(s, prefix) ==
    Len(s) >= Len(prefix) /\ SubSeq(s, 1, Len(prefix)) = prefix

\* s.endswith(suffix)
EndsWith(s, suffix) ==
    Len(s) >= Len(suffix) /\ SubSeq(s, Len(s) - Len(suffix) + 1, Len(s)) = suffix

\* word[0].upper() + word[1:].lower(), for a word that is not empty
Capitalize(word) ==
    <<Upper(word[1])>> \o [i \in 1..(Len(word) - 1) |-> Lower(word[i + 1])]

FruitJam == <<"F","r","u","i","t"," ","J","a","m">>

\* the words of the title, before they are capitalized (lines 445-446)
TitleWords(repo_name) ==
    Split(Strip(Replace(Replace(repo_name, "-", " "), "_", " ")), " ")

\* word[0] of an empty word raises IndexError (line 446)
TitleRaises(repo_name) ==
    \E i \in 1..Len(TitleWords(repo_name)) : TitleWords(repo_name)[i] = << >>

\* the title derived from the repository name (lines 445-448)
Title(repo_name) ==
    LET words == TitleWords(repo_name)
        title == Join([i \in 1..Len(words) |-> Capitalize(words[i])], " ")
    IN  IF StartsWith(title, FruitJam)
        THEN Strip(SubSeq(title, Len(FruitJam) + 1, Len(title)))
        ELSE title

\* full_name.split("/") unpacks into repo_owner, repo_name (lines 442, 546)
SplitRaises(full_name) == Len(Split(full_name, "/")) # 2

RepoOwner(full_name) == Split(full_name, "/")[1]

RepoName(full_name) == Split(full_name, "/")[2]

FullName(owner, name) == owner \o <<"/">> \o name

-----------------------------------------------------------------------------
(* The remote world: the repositories the catalogs name *)

al == <<"a","l">>

bo == <<"b","o">>

pong == <<"p","o","n","g">>

calc == <<"c","a","l","c">>

my_app == <<"m","y","_","a","p","p">>

fruit_jam_x == <<"f","r","u","i","t","-","j","a","m","-","x">>

snek == <<"s","n","e","k">>

tetr == <<"t","e","t","r">>

\* what the repository holds at metadata.json: "full" (title, description and
\* icon), "title" (a title only) or "absent" (no such file)
RemoteMeta(full_name) ==
    IF full_name \in {FullName(al, pong), FullName(bo, pong),
                      FullName(bo, fruit_jam_x)} THEN "full"
    ELSE IF full_name \in {FullName(al, calc), FullName(al, tetr)} THEN "title"
    ELSE "absent"

\* the worlds a run may start in: the display scale, and the catalog document
\* it is served (category names in document order, and the repositories of
\* each)
Worlds ==
    { [scale |-> 1, catalog_doc |->
      [categories |-> <<"Games", "Music">>,
       apps |-> [c \in {"Games", "Music"} |->
            IF c = "Games"
            THEN <<FullName(al, pong), FullName(bo, my_app), FullName(al, calc),
                   FullName(al, snek)>>
            ELSE << >>]]],
      [scale |-> 1, catalog_doc |->
      [categories |-> <<"Games", "Tools">>,
       apps |-> [c \in {"Games", "Tools"} |->
            IF c = "Games" THEN <<FullName(al, pong)>> ELSE <<FullName(bo, pong)>>]]],
      [scale |-> 2, catalog_doc |->
      [categories |-> <<"Music", "Games">>,
       apps |-> [c \in {"Music", "Games"} |->
            IF c = "Games"
            THEN <<FullName(al, tetr), FullName(bo, fruit_jam_x)>>
            ELSE << >>]]] }

\* the catalog before it is loaded
NoCatalog == [categories |-> << >>, apps |-> << >>]

categories == applications.categories

Items(category) == applications.apps[category]

\* math.ceil(n / d) for n >= 0, d > 0
Ceil(n, d) == (n + d - 1) \div d

Min(a, b) == IF a < b THEN a ELSE b

-----------------------------------------------------------------------------
(* The item grid (lines 233-297) *)

\* the grid position add_content gives the index-th item group (line 295)
GridPosition(index) == <<index % PAGE_COLUMNS, index \div PAGE_COLUMNS>>

\* GridLayout.get_content raises KeyError when no content sits at the position
get_content_raises(position) ==
    ~ \E k \in 0..(PAGE_SIZE - 1) : GridPosition(k) = position

\* GridLayout.get_content: the item group added at the position
get_content(position) ==
    CHOOSE k \in 0..(PAGE_SIZE - 1) : GridPosition(k) = position

DefaultIcon == <<"default_icon">>

\* an item group as the setup loop builds it (lines 243-291). Three fields
\* record the last load rather than a widget: item is the application whose
\* details show_page wrote into the group, and repo_fetch, meta_fetch and
\* icon_fetch are how its fetches ended ("none", "ok" or "failed")
InitialSlot ==
    [hidden |-> TRUE, icon |-> DefaultIcon, installed_hidden |-> FALSE,
     title |-> <<"[title]">>, author |-> <<"[author]">>,
     description |-> <<"[description]">>, item |-> NoApplication,
     repo_fetch |-> "none", meta_fetch |-> "none", icon_fetch |-> "none"]

\* "hide all items" (lines 413-414 and 430-431)
HideAll(ss) == [k \in DOMAIN ss |-> [ss[k] EXCEPT !.hidden = TRUE]]

-----------------------------------------------------------------------------
(* File download and caching (lines 365-398) *)

JsonExt == <<".","j","s","o","n">>

BmpExt == <<".","b","m","p">>

IconFile == <<"i","c","o","n",".","b","m","p">>

\* the path _download_file derives from a given name (lines 371-373)
CachePath(name, extension) ==
    <<"/sd/.cache/">>
        \o (IF EndsWith(name, extension)
            THEN SubSeq(name, 1, Len(name) - Len(extension))
            ELSE name)
        \o extension

\* the document a healthy request for the url is answered with; a repository
\* without metadata.json answers with a body that is no JSON
GoodDoc(url) ==
    IF url.kind = "repo" THEN [type |-> "repo", src |-> url.src]
    ELSE IF url.kind = "icon" THEN [type |-> "bmp", src |-> url.src]
    ELSE IF RemoteMeta(url.src) = "absent" THEN [type |-> "garbage", src |-> url.src]
    ELSE [type |-> "meta", src |-> url.src]

\* the faulty bodies a request may be answered with: a malformed one, and for
\* JSON a well-formed object without the expected fields
FaultDocs(url) ==
    {[type |-> "garbage", src |-> url.src]}
        \cup (IF url.kind = "icon" THEN {}
              ELSE {[type |-> "errobj", src |-> url.src]})

\* fj.network.wget(url, path) (line 380): the outcomes of one request
wget(L, url, path) ==
    LET asked == [L EXCEPT !.wget_count = @ + 1,
                           !.requested = @ \cup {path},
                           !.log = Append(@, [ev |-> "request", kind |-> url.kind,
                                              item |-> url.src])]
        faulty == [asked EXCEPT !.faults = @ + 1]
    IN  {[L |-> [asked EXCEPT !.cache = (path :> GoodDoc(url)) @@ @],
          raised |-> FALSE]}
        \cup (IF L.faults < MaxFaults
              THEN {[L |-> faulty, raised |-> TRUE]}
                   \cup {[L |-> [faulty EXCEPT !.cache = (path :> d) @@ @],
                          raised |-> FALSE] : d \in FaultDocs(url)}
              ELSE {})

\* os.stat(path) succeeds (lines 376-378)
Cached(L, path) == path \in DOMAIN L.cache

\* download_file without the look at the file system
DownloadFileNoStat(L, url, extension, name) ==
    wget(L, url, CachePath(name, extension))

\* _download_file (lines 365-381), called with a name
download_file(L, url, extension, name) ==
    IF Cached(L, CachePath(name, extension))
    THEN {[L |-> L, raised |-> FALSE]}
    ELSE wget(L, url, CachePath(name, extension))

NoDoc == [type |-> "none", src |-> NoApplication]

\* download_json (lines 390-398): error is an OSError or HttpError of the
\* request or the ValueError of json.loads
download_json(L, url, name) ==
    { IF r.raised
      THEN [L |-> r.L, error |-> TRUE, data |-> NoDoc]
      ELSE IF r.L.cache[CachePath(name, JsonExt)].type \in {"garbage", "bmp"}
      THEN [L |-> r.L, error |-> TRUE, data |-> NoDoc]
      ELSE [L |-> r.L, error |-> FALSE, data |-> r.L.cache[CachePath(name, JsonExt)]]
      : r \in download_file(L, url, JsonExt, name) }

\* download_image (lines 383-388)
download_image(L, url, name) == download_file(L, url, BmpExt, name)

-----------------------------------------------------------------------------
(* The session: everything the handlers read and write, as one record.     *)
(* A handler maps a session to the set of sessions it may end in (one per  *)
(* combination of network answers); exc names the exception that escaped,  *)
(* requested holds the cache paths the handler issued a request for, and    *)
(* log its status-label updates and network requests in the order it made  *)
(* them.                                                                    *)

Session ==
    [selected_category |-> selected_category,
     current_page |-> current_page,
     selected_application |-> selected_application,
     category_selected |-> category_selected,
     category_group_hidden |-> category_group_hidden,
     item_grid_hidden |-> item_grid_hidden,
     left_tg_hidden |-> left_tg_hidden,
     right_tg_hidden |-> right_tg_hidden,
     dialog_group_hidden |-> dialog_group_hidden,
     dialog_content |-> dialog_content,
     slots |-> slots,
     status_label |-> status_label,
     page_label |-> page_label,
     cache |-> cache,
     faults |-> faults,
     wget_count |-> wget_count,
     requested |-> {},
     log |-> << >>,
     exc |-> "none"]

\* an exception that nothing catches
Raise(L, e) == [L EXCEPT !.exc = e]

-----------------------------------------------------------------------------
(* Item population (lines 437-522) *)

RepoDescription(src) == <<"description of ">> \o src

MetaTitle(src) == <<"title of ">> \o src

MetaDescription(src) == <<"metadata description of ">> \o src

IconOf(src) == <<"icon of ">> \o src

\* show_page without its status messages
SetStatusNever(L, text, full_name) == L

\* status_label.text = text.format(full_name), and the refresh that shows it
\* (lines 466-467, 477-478, 486-487, 494-495, 503-504, 511-512, 521-522)
SetStatus(L, text, full_name) ==
    [L EXCEPT !.status_label = text \o full_name,
              !.log = Append(@, [ev |-> "status", kind |-> text[1],
                                 item |-> full_name])]

\* "set default details" and the installed check (lines 451-464)
DefaultDetails(slot, full_name) ==
    [slot EXCEPT !.icon = DefaultIcon,
                 !.title = Title(RepoName(full_name)),
                 !.author = RepoOwner(full_name),
                 !.description = <<"Loading...">>,
                 !.hidden = FALSE,
                 !.item = full_name,
                 !.repo_fetch = "none",
                 !.meta_fetch = "none",
                 !.icon_fetch = "none",
                 !.installed_hidden = RepoName(full_name) \notin installed_apps]

\* RepositoryFailed without the clearing of the description
RepositoryFailedKeepsText(slot) == [slot EXCEPT !.repo_fetch = "failed"]

\* the except branch of the repository fetch (line 476)
RepositoryFailed(slot) ==
    [slot EXCEPT !.description = << >>, !.repo_fetch = "failed"]

\* the else branch of the repository fetch (lines 482-483), for a document
\* that holds the fields
RepositoryDetails(slot, repository) ==
    [slot EXCEPT !.author = RepoOwner(repository.src),
                 !.description = RepoDescription(repository.src),
                 !.repo_fetch = "ok"]

\* lines 497-500, for a document that holds a title
MetadataDetails(slot, metadata) ==
    [slot EXCEPT !.title = MetaTitle(metadata.src),
                 !.description = IF RemoteMeta(metadata.src) = "full"
                                 THEN MetaDescription(metadata.src)
                                 ELSE @,
                 !.meta_fetch = "ok"]

\* "icon" in metadata (line 502)
HasIcon(metadata) == RemoteMeta(metadata.src) = "full"

\* the name the icon is cached under (line 508)
IconName(repository) == RepoName(repository.src) \o <<"_">> \o IconFile

\* lines 503-516: the icon download, and the decoding that nothing guards
IconStage(L, k, full_name, repository) ==
    LET L1 == SetStatus(L, <<"Downloading icon from ">>, full_name)
        path == CachePath(IconName(repository), BmpExt)
    IN  { IF r.raised
          THEN SetStatus([r.L EXCEPT !.slots[k].icon_fetch = "failed"],
                         <<"Unable to download icon image from ">>, full_name)
          ELSE IF r.L.cache[path].type # "bmp"
          THEN Raise(r.L, "imageload")
          ELSE [r.L EXCEPT !.slots[k].icon = IconOf(r.L.cache[path].src),
                           !.slots[k].icon_fetch = "ok"]
          : r \in download_image(L1, [kind |-> "icon", src |-> full_name],
                                 IconName(repository)) }

\* the name the metadata document is cached under (line 491)
MetadataName(full_name) ==
    Replace(full_name, "/", "_") \o <<"_","m","e","t","a","d","a","t","a">>

\* lines 485-516
MetaStage(L, k, full_name, repository) ==
    LET L1 == SetStatus(L, <<"Reading metadata from ">>, full_name)
    IN  UNION {
          IF r.error
          THEN {SetStatus([r.L EXCEPT !.slots[k].meta_fetch = "failed"],
                          <<"Unable to read metadata from ">>, full_name)}
          ELSE IF r.data.type # "meta"
          THEN {Raise(r.L, "KeyError")}
          ELSE IF HasIcon(r.data)
          THEN IconStage([r.L EXCEPT !.slots[k] = MetadataDetails(@, r.data)],
                         k, full_name, repository)
          ELSE {[r.L EXCEPT !.slots[k] = MetadataDetails(@, r.data)]}
          : r \in download_json(L1, [kind |-> "meta", src |-> full_name],
                                MetadataName(full_name)) }

\* the name the repository document is cached under (line 473)
RepositoryName(full_name) == Replace(full_name, "/", "_")

\* lines 466-516
RepoStage(L, k, full_name) ==
    LET L1 == SetStatus(L, <<"Reading repository data from ">>, full_name)
    IN  UNION {
          IF r.error
          THEN {SetStatus([r.L EXCEPT !.slots[k] = RepositoryFailed(@)],
                          <<"Unable to read repository data from ">>, full_name)}
          ELSE IF r.data.type # "repo"
          THEN {Raise(r.L, "KeyError")}
          ELSE MetaStage([r.L EXCEPT !.slots[k] = RepositoryDetails(@, r.data)],
                         k, full_name, r.data)
          : r \in download_json(L1, [kind |-> "repo", src |-> full_name],
                                RepositoryName(full_name)) }

\* the grid position show_page asks for the index-th item of the category
\* (line 438)
ItemPosition(index) == <<index % PAGE_COLUMNS, index \div PAGE_COLUMNS>>

\* one pass of the loop body (lines 438-519) for the item at index (0-based)
LoadItem(L, category, index) ==
    LET full_name == Items(category)[index + 1]
    IN  IF get_content_raises(ItemPosition(index))
        THEN {Raise(L, "KeyError")}
        ELSE IF SplitRaises(full_name)
        THEN {Raise(L, "ValueError")}
        ELSE IF TitleRaises(RepoName(full_name))
        THEN {Raise(L, "IndexError")}
        ELSE LET k == get_content(ItemPosition(index))
             IN  RepoStage([L EXCEPT !.slots[k] = DefaultDetails(@, full_name)],
                           k, full_name)

\* the loop of lines 437-522, from index to end
RECURSIVE ShowItems(_, _, _, _)
ShowItems(L, category, index, end) ==
    IF index >= end
    THEN {SetStatus(L, <<"Page loaded!">>, << >>)}
    ELSE UNION { IF M.exc # "none"
                 THEN {M}
                 ELSE ShowItems(M, category, index + 1, end)
                 : M \in LoadItem(L, category, index) }

\* PageOutOfRange without the upper bound
PageOutOfRangeNoUpper(page, n) == page * PAGE_SIZE < 0

\* PageOutOfRange without the lower bound
PageOutOfRangeNoLower(page, n) == page * PAGE_SIZE >= n

\* the early return of show_page (lines 424-427)
PageOutOfRange(page, n) == page * PAGE_SIZE < 0 \/ page * PAGE_SIZE >= n

\* "hide all items" and "update page label" (lines 429-435), for a category of
\* n items
PageStart(S, page, n) ==
    [S EXCEPT !.slots = HideAll(@),
              !.current_page = page,
              !.page_label = <<page + 1, Ceil(n, PAGE_SIZE)>>]

\* show_page (lines 420-522), with selected_category = category
show_page(S, category, page) ==
    LET n == Len(Items(category))
    IN  IF PageOutOfRange(page, n)
        THEN {S}
        ELSE ShowItems(PageStart(S, page, n), category, page * PAGE_SIZE,
                       Min((page + 1) * PAGE_SIZE, n))

\* next_page (lines 524-526)
next_page(S) == show_page(S, S.selected_category, S.current_page + 1)

\* previous_page (lines 528-530)
previous_page(S) == show_page(S, S.selected_category, S.current_page - 1)

\* CategoryIgnored without the test for the selected category
CategoryIgnoredUnknownOnly(S, name) ==
    name \notin {categories[i] : i \in 1..Len(categories)}

\* the early return of select_category (lines 404-405)
CategoryIgnored(S, name) ==
    name \notin {categories[i] : i \in 1..Len(categories)}
        \/ name = S.selected_category

\* lines 406-414 of select_category: the selection, the button states, and
\* "hide all items"
CategorySelected(S, name) ==
    [S EXCEPT !.selected_category = name,
              !.category_selected = {name},
              !.slots = HideAll(@)]

\* select_category (lines 402-417)
select_category(S, name) ==
    IF CategoryIgnored(S, name)
    THEN {S}
    ELSE show_page(CategorySelected(S, name), name, 0)

-----------------------------------------------------------------------------
(* The confirmation dialog (lines 537-586) *)

\* the layers appended to each item group (lines 253, 260, 270, 279, 291)
ItemGroupSize == 5

\* the names select_application unpacks an item group into (line 557)
SelectUnpackNames == 4

\* the early return of select_application (lines 541-543)
NoSuchItem(S, index) ==
    index + S.current_page * PAGE_SIZE < 0
        \/ index + S.current_page * PAGE_SIZE >= Len(Items(S.selected_category))

\* the prompt of the dialog (lines 559-563)
DialogText(slot, repo_name) ==
    <<"Would you like to download and install ">> \o slot.title
        \o <<" by ">> \o slot.author \o <<" to /sd/apps/">> \o repo_name

\* "hide other UI elements" (lines 549-552)
HideNavigation(S) ==
    [S EXCEPT !.category_group_hidden = TRUE,
              !.item_grid_hidden = TRUE,
              !.left_tg_hidden = TRUE,
              !.right_tg_hidden = TRUE]

\* "populate dialog info" and the showing of the dialog (lines 555-565), once
\* the item group is unpacked
ShowDialog(S, idx) ==
    [S EXCEPT !.dialog_content =
                  DialogText(S.slots[get_content(GridPosition(idx % PAGE_SIZE))],
                             RepoName(Items(S.selected_category)[idx + 1])),
              !.dialog_group_hidden = FALSE]

\* select_application (lines 538-565); unpacking a sequence into fewer names
\* than it has elements (line 557) raises ValueError
select_application(S, index) ==
    IF NoSuchItem(S, index)
    THEN S
    ELSE LET idx == index + S.current_page * PAGE_SIZE
             app == Items(S.selected_category)[idx + 1]
             S1 == [S EXCEPT !.selected_application = app]
         IN  IF SplitRaises(app)
             THEN Raise(S1, "ValueError")
             ELSE IF get_content_raises(GridPosition(idx % PAGE_SIZE))
             THEN Raise(HideNavigation(S1), "KeyError")
             ELSE IF ItemGroupSize # SelectUnpackNames
             THEN Raise(HideNavigation(S1), "ValueError")
             ELSE ShowDialog(HideNavigation(S1), idx)

\* deselect_application (lines 567-579)
deselect_application(S) ==
    [S EXCEPT !.selected_application = NoApplication,
              !.dialog_group_hidden = TRUE,
              !.category_group_hidden = FALSE,
              !.item_grid_hidden = FALSE,
              !.left_tg_hidden = FALSE,
              !.right_tg_hidden = FALSE]

\* download_application (lines 581-586): it prints and returns
download_application(S) == S

-----------------------------------------------------------------------------
(* The pointer loop (lines 589-626) *)

NoCell == << >>

\* no press
NoPoint ==
    [cell |-> NoCell, right |-> FALSE, left |-> FALSE, button |-> 0,
     dialog |-> "none"]

\* last_call: the handler dispatched (op), its argument (name or index),
\* selected_category and current_page as they were when it was called, the
\* point of the press that dispatched it, the cache paths it issued a
\* request for, and its status-label updates and requests in order
NoCall ==
    [op |-> "none", name |-> "", index |-> 0, category |-> "", page |-> 0,
     point |-> NoPoint, requested |-> {}, log |-> << >>]

Call(S, op, name, index) ==
    [op |-> op, name |-> name, index |-> index,
     category |-> S.selected_category, page |-> S.current_page,
     point |-> NoPoint, requested |-> {}, log |-> << >>]

Cells == {<<x, y>> : x \in 0..(PAGE_COLUMNS - 1), y \in 0..(PAGE_ROWS - 1)}

\* where a press may land: what each hit test of lines 605-618 answers there.
\* The dialog's buttons lie over the bottom row of the grid (No to the left, Yes
\* to the right); the arrows and the category buttons lie outside the grid.
\* Two more points have several of the tests answer yes at once, so that the
\* order of the tests shows.
Points ==
    {[cell |-> c, right |-> FALSE, left |-> FALSE, button |-> 0, dialog |-> "none"]
        : c \in Cells}
    \cup {[cell |-> <<0, PAGE_ROWS - 1>>, right |-> FALSE, left |-> FALSE,
           button |-> 0, dialog |-> "no"],
          [cell |-> <<PAGE_COLUMNS - 1, PAGE_ROWS - 1>>, right |-> FALSE,
           left |-> FALSE, button |-> 0, dialog |-> "yes"]}
    \cup {[cell |-> NoCell, right |-> r, left |-> ~r, button |-> 0, dialog |-> "none"]
        : r \in BOOLEAN}
    \cup {[cell |-> NoCell, right |-> FALSE, left |-> FALSE, button |-> b,
           dialog |-> "none"] : b \in 0..Len(categories)}
    \cup {[cell |-> <<0, 0>>, right |-> TRUE, left |-> TRUE,
           button |-> Len(categories), dialog |-> "none"],
          [cell |-> NoCell, right |-> TRUE, left |-> TRUE,
           button |-> Len(categories), dialog |-> "none"]}

\* Dispatch without the look at the dialog
DispatchThroughDialog(S, p) ==
    IF p.cell # NoCell
    THEN Call(S, "select_application", "", p.cell[2] * PAGE_COLUMNS + p.cell[1])
    ELSE IF p.right THEN Call(S, "next_page", "", 0)
    ELSE IF p.left THEN Call(S, "previous_page", "", 0)
    ELSE IF p.button # 0 THEN Call(S, "select_category", categories[p.button], 0)
    ELSE NoCall

\* Dispatch with the arrows and the category buttons tested before the grid
DispatchArrowsFirst(S, p) ==
    IF S.dialog_group_hidden
    THEN IF p.right THEN Call(S, "next_page", "", 0)
         ELSE IF p.left THEN Call(S, "previous_page", "", 0)
         ELSE IF p.button # 0
         THEN Call(S, "select_category", categories[p.button], 0)
         ELSE IF p.cell # NoCell
         THEN Call(S, "select_application", "",
                   p.cell[2] * PAGE_COLUMNS + p.cell[1])
         ELSE NoCall
    ELSE IF p.dialog = "yes" THEN Call(S, "download_application", "", 0)
    ELSE IF p.dialog = "no" THEN Call(S, "deselect_application", "", 0)
    ELSE NoCall

\* the handler a press at the point dispatches (lines 604-619)
Dispatch(S, p) ==
    IF S.dialog_group_hidden
    THEN IF p.cell # NoCell
         THEN Call(S, "select_application", "",
                   p.cell[2] * PAGE_COLUMNS + p.cell[1])
         ELSE IF p.right THEN Call(S, "next_page", "", 0)
         ELSE IF p.left THEN Call(S, "previous_page", "", 0)
         ELSE IF p.button # 0
         THEN Call(S, "select_category", categories[p.button], 0)
         ELSE NoCall
    ELSE IF p.dialog = "yes" THEN Call(S, "download_application", "", 0)
    ELSE IF p.dialog = "no" THEN Call(S, "deselect_application", "", 0)
    ELSE NoCall

\* last_call after a press at the point that dispatched the call and ended
\* in the session T; op is "nothing" when the press dispatched no handler
Pressed(call, p, T) ==
    [call EXCEPT !.point = p,
                 !.op = IF @ = "none" THEN "nothing" ELSE @,
                 !.requested = T.requested,
                 !.log = T.log]

\* the sessions the dispatched handler may end in
Handle(S, call) ==
    CASE call.op = "select_application" -> {select_application(S, call.index)}
      [] call.op = "next_page" -> next_page(S)
      [] call.op = "previous_page" -> previous_page(S)
      [] call.op = "select_category" -> select_category(S, call.name)
      [] call.op = "download_application" -> {download_application(S)}
      [] call.op = "deselect_application" -> {deselect_application(S)}
      [] OTHER -> {S}

\* the session becomes T; an exception that escaped ends the program
Apply(T) ==
    /\ selected_category' = T.selected_category
    /\ current_page' = T.current_page
    /\ selected_application' = T.selected_application
    /\ category_selected' = T.category_selected
    /\ category_group_hidden' = T.category_group_hidden
    /\ item_grid_hidden' = T.item_grid_hidden
    /\ left_tg_hidden' = T.left_tg_hidden
    /\ right_tg_hidden' = T.right_tg_hidden
    /\ dialog_group_hidden' = T.dialog_group_hidden
    /\ dialog_content' = T.dialog_content
    /\ slots' = T.slots
    /\ status_label' = T.status_label
    /\ page_label' = T.page_label
    /\ cache' = T.cache
    /\ faults' = T.faults
    /\ wget_count' = T.wget_count
    /\ exception' = T.exc
    /\ pc' = IF T.exc = "none" THEN "running" ELSE "crashed"

world == <<SCALE, catalog_doc, installed_apps>>

derivation == <<short_name, titles>>

session == <<selected_category, current_page, selected_application,
             category_selected, category_group_hidden, item_grid_hidden,
             left_tg_hidden, right_tg_hidden, dialog_group_hidden, dialog_content,
             slots, status_label, page_label, cache, faults, wget_count>>

\* no page load is under way
NoLoad == [active |-> FALSE, index |-> 0, end |-> 0]

\* a show_page that hands control back to the event loop between two items
LoadYieldsBetweenItems == TRUE

\* whether show_page hands control back to the event loop before it returns:
\* it is a plain function, and neither it nor what it calls awaits (lines
\* 420-522)
LoadYields == FALSE

\* the event loop resumes a task only while the running one is suspended at an
\* await (lines 623, 626, 638): never inside a page load that does not yield
AtAwait == ~load.active \/ LoadYields

\* the program ends (an exception out of asyncio.run, or reset): the tasks
\* and their locals are gone, and no report of the mouse is read any more
TasksEnd ==
    /\ mouse' = FALSE
    /\ timeouts' = 0
    /\ previous_mouse_state' = FALSE
    /\ left_down' = FALSE
    /\ load' = NoLoad

\* find_and_init_boot_mouse finds a mouse (lines 592-598)
MouseFound ==
    /\ pc = "running" /\ AtAwait /\ ~mouse
    /\ mouse' = TRUE
    /\ timeouts' = 0
    /\ previous_mouse_state' = FALSE
    /\ last_call' = NoCall
    /\ UNCHANGED left_down
    /\ UNCHANGED <<pc, exception, world, derivation, load, applications,
                   session>>

\* find_and_init_boot_mouse finds none; the loop sleeps and retries (line 626)
MouseNotFound ==
    /\ pc = "running" /\ AtAwait /\ ~mouse
    /\ last_call' = NoCall
    /\ UNCHANGED <<pc, exception, world, derivation, load, applications,
                   session,
                   mouse, timeouts,
                   previous_mouse_state, left_down>>

\* mouse.update() returns None (lines 621-622)
MouseIdle ==
    /\ pc = "running" /\ AtAwait /\ mouse /\ timeouts < MOUSE_TIMEOUTS
    /\ timeouts' = timeouts + 1
    /\ last_call' = NoCall
    /\ UNCHANGED <<pc, exception, world, derivation, load, applications,
                   session, mouse,
                   previous_mouse_state, left_down>>

\* MouseUpdate without the reset of timeouts
MouseUpdateKeepsCount ==
    /\ pc = "running" /\ AtAwait /\ mouse /\ timeouts < MOUSE_TIMEOUTS
    /\ \E mouse_state \in BOOLEAN :
         /\ ~(mouse_state /\ ~previous_mouse_state)
         /\ previous_mouse_state' = mouse_state
         /\ left_down' = mouse_state
    /\ last_call' = NoCall
    /\ UNCHANGED <<pc, exception, world, derivation, load, applications,
                   session, mouse,
                   timeouts>>

\* mouse.update() reports a state that is no new press (lines 600-603, 620)
MouseUpdate ==
    /\ pc = "running" /\ AtAwait /\ mouse /\ timeouts < MOUSE_TIMEOUTS
    /\ \E mouse_state \in BOOLEAN :
         /\ ~(mouse_state /\ ~previous_mouse_state)
         /\ previous_mouse_state' = mouse_state
         /\ left_down' = mouse_state
    /\ timeouts' = 0
    /\ last_call' = NoCall
    /\ UNCHANGED <<pc, exception, world, derivation, load, applications,
                   session,
                   mouse>>

\* mouse.update() reports a new press of the left button (lines 600-620)
MousePress ==
    /\ pc = "running" /\ AtAwait /\ mouse /\ timeouts < MOUSE_TIMEOUTS
    /\ ~previous_mouse_state
    /\ \E p \in Points :
         \E T \in Handle(Session, Dispatch(Session, p)) :
              /\ last_call' = Pressed(Dispatch(Session, p), p, T)
              /\ Apply(T)
              /\ IF T.exc = "none"
                 THEN /\ timeouts' = 0
                      /\ previous_mouse_state' = TRUE
                      /\ left_down' = TRUE
                      /\ mouse' = mouse
                      /\ load' = load
                 ELSE TasksEnd
    /\ UNCHANGED <<world, derivation, applications>>

\* the inner loop ends after MOUSE_TIMEOUTS idle polls (lines 599, 625)
MouseRelease ==
    /\ pc = "running" /\ AtAwait /\ mouse /\ timeouts >= MOUSE_TIMEOUTS
    /\ mouse' = FALSE
    /\ last_call' = NoCall
    /\ UNCHANGED <<pc, exception, world, derivation, load, applications,
                   session,
                   timeouts,
                   previous_mouse_state, left_down>>

-----------------------------------------------------------------------------
(* The keyboard loop and reset (lines 178-182, 628-638, 646-649) *)

Escape == "\\x1b"

\* what one read of the serial buffer may return
KeyInputs == {<<Escape>>, <<"a">>, <<Escape, "[", "A">>}

\* the read holds an escape byte
HasEscape(key) == \E i \in 1..Len(key) : key[i] = Escape

\* keyboard_task reads key from the buffer; the escape key resets (lines
\* 635-637)
KeyboardRead(key) ==
    /\ pc = "running" /\ AtAwait
    /\ IF key = <<Escape>>
       THEN pc' = "reset" /\ TasksEnd
       ELSE UNCHANGED <<pc, mouse, timeouts, previous_mouse_state, left_down,
                       load>>
    /\ last_call' = NoCall
    /\ UNCHANGED <<exception, world, derivation, applications, session>>

\* one pass of the loop of keyboard_task (lines 634-637)
KeyboardPoll == \E key \in KeyInputs : KeyboardRead(key)

\* KeyboardInterrupt out of asyncio.run (lines 646-649)
Interrupt ==
    /\ pc = "running"
    /\ pc' = "reset"
    /\ TasksEnd
    /\ last_call' = NoCall
    /\ UNCHANGED <<exception, world, derivation, applications, session>>

-----------------------------------------------------------------------------
(* Startup (lines 184-221, 532-533) *)

\* a step of the startup: last_call names what the startup met
Boot(met) == [NoCall EXCEPT !.op = "boot", !.name = met]

\* the SD card is not mounted (lines 184-187)
BootNoCard ==
    /\ pc = "boot"
    /\ status_label' = <<"SD card not mounted!">>
    /\ pc' = "reset"
    /\ last_call' = Boot("no card")
    /\ UNCHANGED <<exception, world, derivation, load, applications,
                   selected_category, current_page,
                   selected_application, category_selected, category_group_hidden,
                   item_grid_hidden, left_tg_hidden, right_tg_hidden,
                   dialog_group_hidden, dialog_content, slots, page_label, cache,
                   faults, wget_count, mouse, timeouts,
                   previous_mouse_state, left_down>>

\* the answers to the catalog request that end in the except clause of line
\* 210: the request raises OSError, the body is no JSON (ValueError of
\* json.loads), or it is a JSON number (the ValueError of line 209)
CatalogErrors == {"unreachable", "no json", "number"}

\* the catalog cannot be fetched (lines 202-213)
BootNoCatalog ==
    /\ pc = "boot"
    /\ status_label' = <<"Unable to fetch applications database!">>
    /\ pc' = "reset"
    /\ \E met \in CatalogErrors : last_call' = Boot(met)
    /\ UNCHANGED <<exception, world, derivation, load, applications,
                   selected_category, current_page,
                   selected_application, category_selected, category_group_hidden,
                   item_grid_hidden, left_tg_hidden, right_tg_hidden,
                   dialog_group_hidden, dialog_content, slots, page_label, cache,
                   faults, wget_count, mouse, timeouts,
                   previous_mouse_state, left_down>>

\* the answers that are JSON but no catalog and that the try of lines 202-209
\* lets through: an array, and an object without keys
CatalogMisfits == {"array", "empty object"}

\* the catalog document is JSON but no catalog: categories = list(
\* applications.keys()) raises AttributeError for an array (line 215), and
\* MENU_WIDTH divides by len(categories) = 0 for an object without keys (line
\* 221); neither line is inside a try
BootMisfitCatalog ==
    /\ pc = "boot"
    /\ \E met \in CatalogMisfits :
         /\ exception' = IF met = "array" THEN "AttributeError"
                                          ELSE "ZeroDivisionError"
         /\ last_call' = Boot(met)
    /\ pc' = "crashed"
    /\ UNCHANGED <<world, derivation, load, applications, session, mouse,
                   timeouts,
                   previous_mouse_state, left_down>>

\* the catalog is fetched and the menu is built (lines 202-230)
BootCatalog ==
    /\ pc = "boot"
    /\ applications' = catalog_doc
    /\ pc' = "loaded"
    /\ last_call' = Boot("catalog")
    /\ UNCHANGED <<exception, world, derivation, load, session, mouse, timeouts,
                   previous_mouse_state, left_down>>

\* select_category(categories[0]) (line 533)
SelectFirst ==
    /\ pc = "loaded"
    /\ \E T \in select_category(Session, categories[1]) :
         /\ last_call' = [Call(Session, "select_category", categories[1], 0)
                              EXCEPT !.requested = T.requested,
                                     !.log = T.log]
         /\ Apply(T)
    /\ UNCHANGED <<world, derivation, load, applications, mouse, timeouts,
                   previous_mouse_state, left_down>>

-----------------------------------------------------------------------------

\* the directories /sd/apps may hold
InstalledChoices == {{calc}}

Init ==
    /\ pc = "boot"
    /\ exception = "none"
    /\ \E w \in Worlds : SCALE = w.scale /\ catalog_doc = w.catalog_doc
    /\ installed_apps \in InstalledChoices
    /\ applications = NoCatalog
    /\ selected_category = NoCategory
    /\ current_page = 0
    /\ selected_application = NoApplication
    /\ category_selected = {}
    /\ category_group_hidden = FALSE
    /\ item_grid_hidden = FALSE
    /\ left_tg_hidden = FALSE
    /\ right_tg_hidden = FALSE
    /\ dialog_group_hidden = TRUE
    /\ dialog_content = <<"[content]">>
    /\ slots = [k \in 0..(SCALE * PAGE_ROWS - 1) |-> InitialSlot]
    /\ status_label = <<"Loading...">>
    /\ page_label = <<0, 0>>
    /\ cache = << >>
    /\ faults = 0
    /\ wget_count = 0
    /\ mouse = FALSE
    /\ timeouts = 0
    /\ previous_mouse_state = FALSE
    /\ left_down = FALSE
    /\ last_call = NoCall
    /\ load = NoLoad
    /\ short_name = << >>
    /\ titles = << >>

Next ==
    \/ BootNoCard
    \/ BootNoCatalog
    \/ BootMisfitCatalog
    \/ BootCatalog
    \/ SelectFirst
    \/ MouseFound
    \/ MouseNotFound
    \/ MouseIdle
    \/ MouseUpdate
    \/ MousePress
    \/ MouseRelease
    \/ KeyboardPoll
    \/ Interrupt

Spec == Init /\ [][Next]_vars

-----------------------------------------------------------------------------
(* The dialog handlers, started where select_application is written to end. *)
(* Line 557 raises in every call that reaches it, so the program itself     *)
(* never shows the dialog; DialogSpec starts from the sessions lines        *)
(* 545-565 describe (a fault-free first page, one of its items selected,    *)
(* the navigation hidden, the dialog shown) to exercise lines 616-619.      *)

DialogInit ==
    /\ pc = "running"
    /\ exception = "none"
    /\ \E w \in Worlds :
         /\ SCALE = w.scale
         /\ catalog_doc = w.catalog_doc
         /\ applications = w.catalog_doc
    /\ installed_apps \in InstalledChoices
    /\ mouse = TRUE
    /\ timeouts = 0
    /\ previous_mouse_state = TRUE
    /\ left_down = TRUE
    /\ \E c \in {categories[i] : i \in 1..Len(categories)} :
       \E L \in select_category(
                 [selected_category |-> NoCategory, current_page |-> 0,
                  selected_application |-> NoApplication, category_selected |-> {},
                  category_group_hidden |-> FALSE, item_grid_hidden |-> FALSE,
                  left_tg_hidden |-> FALSE, right_tg_hidden |-> FALSE,
                  dialog_group_hidden |-> TRUE, dialog_content |-> <<"[content]">>,
                  slots |-> [k \in 0..(PAGE_SIZE - 1) |-> InitialSlot],
                  status_label |-> <<"Loading...">>, page_label |-> <<0, 0>>,
                  cache |-> << >>, faults |-> 0, wget_count |-> 0,
                  requested |-> {}, log |-> << >>, exc |-> "none"],
                 c) :
       \E index \in 0..(PAGE_SIZE - 1) :
         /\ L.exc = "none" /\ L.faults = 0
         /\ ~NoSuchItem(L, index)
         /\ LET T == ShowDialog(HideNavigation(
                        [L EXCEPT !.selected_application =
                                      Items(L.selected_category)[index + 1]]), index)
            IN  /\ selected_category = T.selected_category
                /\ current_page = T.current_page
                /\ selected_application = T.selected_application
                /\ category_selected = T.category_selected
                /\ category_group_hidden = T.category_group_hidden
                /\ item_grid_hidden = T.item_grid_hidden
                /\ left_tg_hidden = T.left_tg_hidden
                /\ right_tg_hidden = T.right_tg_hidden
                /\ dialog_group_hidden = T.dialog_group_hidden
                /\ dialog_content = T.dialog_content
                /\ slots = T.slots
                /\ status_label = T.status_label
                /\ page_label = T.page_label
                /\ cache = T.cache
                /\ faults = T.faults
                /\ wget_count = T.wget_count
                /\ last_call = Call(L, "select_application", "", index)
    /\ load = NoLoad
    /\ short_name = << >>
    /\ titles = << >>

DialogNext ==
    \/ MouseFound
    \/ MouseNotFound
    \/ MouseIdle
    \/ MouseUpdate
    \/ MousePress
    \/ MouseRelease
    \/ KeyboardPoll
    \/ Interrupt

DialogSpec == DialogInit /\ [][DialogNext]_vars

-----------------------------------------------------------------------------
(* The page load taken one item at a time.  In Spec a press and the load it *)
(* starts are one step; in TaskSpec the loop of lines 437-519 takes a step  *)
(* for each item, so that what the event loop may do between two items      *)
(* shows.  The first load (line 533) runs before the tasks exist and stays  *)
(* one step.                                                                *)

\* the page the handler calls show_page for
LoadPage(S, call) ==
    CASE call.op = "next_page" -> S.current_page + 1
      [] call.op = "previous_page" -> S.current_page - 1
      [] OTHER -> 0

\* the category show_page finds selected
LoadCategory(S, call) ==
    IF call.op = "select_category" THEN call.name ELSE S.selected_category

\* the handler calls show_page, and show_page gets past its early return
\* (lines 404-405, 417, 426-427, 526, 530)
EntersLoop(S, call) ==
    /\ call.op \in {"next_page", "previous_page", "select_category"}
    /\ call.op = "select_category" => ~CategoryIgnored(S, call.name)
    /\ ~PageOutOfRange(LoadPage(S, call), Len(Items(LoadCategory(S, call))))

\* the session at the head of the loop of line 437
LoopEntry(S, call) ==
    PageStart(IF call.op = "select_category"
              THEN CategorySelected(S, call.name)
              ELSE S,
              LoadPage(S, call), Len(Items(LoadCategory(S, call))))

\* mouse.update() reports a new press (lines 600-620): the handler runs to its
\* end, or up to the head of show_page's loop
PressStep ==
    /\ pc = "running" /\ AtAwait /\ mouse /\ timeouts < MOUSE_TIMEOUTS
    /\ ~previous_mouse_state
    /\ \E p \in Points :
         LET call == Dispatch(Session, p)
         IN  IF EntersLoop(Session, call)
             THEN /\ Apply(LoopEntry(Session, call))
                  /\ last_call' = Pressed(call, p, Session)
                  /\ load' = [active |-> TRUE,
                              index |-> LoadPage(Session, call) * PAGE_SIZE,
                              end |-> Min((LoadPage(Session, call) + 1) * PAGE_SIZE,
                                          Len(Items(LoadCategory(Session, call))))]
                  /\ timeouts' = 0
                  /\ left_down' = TRUE
                  /\ UNCHANGED <<mouse, previous_mouse_state>>
             ELSE \E T \in Handle(Session, call) :
                    /\ last_call' = Pressed(call, p, T)
                    /\ Apply(T)
                    /\ IF T.exc = "none"
                       THEN /\ timeouts' = 0
                            /\ previous_mouse_state' = TRUE
                            /\ left_down' = TRUE
                            /\ mouse' = mouse
                            /\ load' = load
                       ELSE TasksEnd
    /\ UNCHANGED <<world, derivation, applications>>

\* one pass of the loop body (lines 438-519), for the item of the selected
\* category at load.index
LoadItemStep ==
    /\ pc = "running" /\ load.active /\ load.index < load.end
    /\ \E T \in LoadItem(Session, selected_category, load.index) :
         /\ Apply(T)
         /\ last_call' = [NoCall EXCEPT !.op = "load item",
                                        !.index = load.index,
                                        !.requested = T.requested,
                                        !.log = T.log]
         /\ IF T.exc = "none"
            THEN /\ load' = [load EXCEPT !.index = @ + 1]
                 /\ UNCHANGED <<mouse, timeouts, previous_mouse_state, left_down>>
            ELSE TasksEnd
    /\ UNCHANGED <<world, derivation, applications>>

\* the loop is through: "Page loaded!", show_page and the handler return, and
\* mouse_task goes on to lines 620-623
LoadReturn ==
    /\ pc = "running" /\ load.active /\ load.index >= load.end
    /\ Apply(SetStatus(Session, <<"Page loaded!">>, << >>))
    /\ last_call' = [NoCall EXCEPT !.op = "load return"]
    /\ load' = NoLoad
    /\ previous_mouse_state' = TRUE
    /\ UNCHANGED <<mouse, timeouts, left_down>>
    /\ UNCHANGED <<world, derivation, applications>>

TaskNext ==
    \/ BootNoCard
    \/ BootNoCatalog
    \/ BootMisfitCatalog
    \/ BootCatalog
    \/ SelectFirst
    \/ MouseFound
    \/ MouseNotFound
    \/ MouseIdle
    \/ MouseUpdate
    \/ PressStep
    \/ LoadItemStep
    \/ LoadReturn
    \/ MouseRelease
    \/ KeyboardPoll
    \/ Interrupt

TaskSpec == Init /\ [][TaskNext]_vars

-----------------------------------------------------------------------------
(* Properties *)

DialogVisible == ~dialog_group_hidden

NavigationVisible ==
    /\ ~category_group_hidden
    /\ ~item_grid_hidden
    /\ ~left_tg_hidden
    /\ ~right_tg_hidden

CategoryNames == {categories[i] : i \in 1..Len(categories)}

\* ceil(N / PAGE_SIZE) for the category
Pages(category) == Ceil(Len(Items(category)), PAGE_SIZE)

ValidPage(page, category) == 0 <= page /\ page < Pages(category)

\* the grid shows page p of the category: slot k shows item p * PAGE_SIZE + k
\* when there is one, and is hidden otherwise
PageShown(ss, category, p) ==
    \A k \in DOMAIN ss :
        IF p * PAGE_SIZE + k < Len(Items(category))
        THEN ~ss[k].hidden /\ ss[k].item = Items(category)[p * PAGE_SIZE + k + 1]
        ELSE ss[k].hidden

\* the call is a select_category that the claims call a no-op: an unknown name
\* or the selected category
SelectIgnored(call) ==
    call.op = "select_category"
        /\ (call.name \notin CategoryNames \/ call.name = call.category)

\* the call reaches show_page
ShowPageCalled(call) ==
    \/ call.op \in {"next_page", "previous_page"}
    \/ call.op = "select_category" /\ ~SelectIgnored(call)

\* the page and the category show_page is called for
RequestedPage(call) ==
    IF call.op = "next_page" THEN call.page + 1
    ELSE IF call.op = "previous_page" THEN call.page - 1
    ELSE 0

RequestedCategory(call) ==
    IF call.op = "select_category" THEN call.name ELSE call.category

\* C1: in every reachable state exactly one of the confirmation dialog and the
\* primary navigation (category buttons, item grid, both arrows) is visible.
C1_DialogXorNavigation == DialogVisible <=> ~NavigationVisible

\* C2: once a category is selected, 0 <= current_page < ceil(N / PAGE_SIZE) for
\* the N items of the selected category, empty categories included.
C2_PageIndexValid ==
    selected_category # NoCategory => ValidPage(current_page, selected_category)

\* C2, amended: current_page is never negative, and it is below
\* ceil(N / PAGE_SIZE) whenever the selected category has at least one item.
C2_PageIndexValidNonEmpty ==
    selected_category # NoCategory =>
        /\ 0 <= current_page
        /\ Len(Items(selected_category)) >= 1 =>
               current_page < Pages(selected_category)

\* a page change took place in a category of several pages
C2_Witness ==
    /\ selected_category # NoCategory
    /\ last_call.op = "next_page"
    /\ current_page = last_call.page + 1
    /\ Pages(selected_category) >= 2

\* C3: select_category(name), name a catalog key other than the selected
\* category, ends with selected_category = name, current_page = 0 and the first
\* page of that category in the grid.
C3_SelectCategoryLoadsFirstPage ==
    [][ (last_call'.op = "select_category" /\ ~SelectIgnored(last_call'))
        => /\ selected_category' = last_call'.name
           /\ current_page' = 0
           /\ PageShown(slots', last_call'.name, 0) ]_vars

\* C4: for every valid page p of the category, show_page(p) completes with
\* current_page = p, slot k showing item p * PAGE_SIZE + k for each item of the
\* page and every other slot hidden. Stated for the loads in which no request
\* is answered with a fault, where nothing but show_page itself can fail.
C4_ShowPageShowsPage ==
    [][ (/\ ShowPageCalled(last_call')
         /\ ValidPage(RequestedPage(last_call'), RequestedCategory(last_call'))
         /\ faults' = faults)
        => /\ pc' = "running"
           /\ current_page' = RequestedPage(last_call')
           /\ PageShown(slots', RequestedCategory(last_call'),
                        RequestedPage(last_call')) ]_vars

\* C5: select_category(name) with name unknown or already selected changes
\* nothing: the selection, the page, the slots, the labels, the dialog and the
\* cache stay as they were and no request is issued.
C5_IgnoredSelectChangesNothing ==
    [][ SelectIgnored(last_call') => (UNCHANGED session /\ pc' = pc) ]_vars

\* the selected category's button was pressed
C5_Witness ==
    /\ pc = "running"
    /\ last_call.op = "select_category"
    /\ last_call.name = last_call.category
    /\ last_call.name = selected_category

\* C6: next_page and previous_page towards a page outside
\* [0, ceil(N / PAGE_SIZE)) change nothing: current_page, the slots, the labels
\* and the cache stay as they were and no request is issued.
C6_OutOfRangePageChangesNothing ==
    [][ (/\ last_call'.op \in {"next_page", "previous_page"}
         /\ ~ValidPage(RequestedPage(last_call'), RequestedCategory(last_call')))
        => (UNCHANGED session /\ pc' = pc) ]_vars

\* the right arrow was pressed on the last page of a category that has items
C6_Witness ==
    /\ pc = "running"
    /\ last_call.op = "next_page"
    /\ last_call.category = selected_category
    /\ Len(Items(selected_category)) >= 1
    /\ last_call.page + 1 = Pages(selected_category)
    /\ current_page = last_call.page

\* C7: with the dialog hidden, a press on a grid slot that holds an item shows
\* the dialog with a prompt naming the item, sets selected_application to that
\* item, and leaves the input loops running.
C7_PressOnItemOpensDialog ==
    [][ (/\ dialog_group_hidden
         /\ last_call'.op = "select_application"
         /\ last_call'.page * PAGE_SIZE + last_call'.index
                < Len(Items(last_call'.category)))
        => /\ ~dialog_group_hidden'
           /\ selected_application' =
                  Items(last_call'.category)
                      [last_call'.page * PAGE_SIZE + last_call'.index + 1]
           /\ dialog_content' =
                  DialogText(slots[last_call'.index], RepoName(selected_application'))
           /\ pc' = "running" ]_vars

C9_SelectedIffDialog ==
    /\ (selected_application # NoApplication) <=> DialogVisible
    /\ selected_application # NoApplication =>
           \E i \in 1..Len(Items(selected_category)) :
               Items(selected_category)[i] = selected_application

VisibleSlots == {k \in DOMAIN slots : ~slots[k].hidden}

\* the slots of the last load whose repository fetch failed
FailedSlots == {k \in VisibleSlots : slots[k].repo_fetch = "failed"}

\* every fetch the load made for the slot succeeded
FullyFetched(k) ==
    /\ slots[k].repo_fetch = "ok"
    /\ slots[k].meta_fetch = "ok"
    /\ RemoteMeta(slots[k].item) = "full" => slots[k].icon_fetch = "ok"

\* the slot shows everything its repository offers
FullyPopulated(k) ==
    /\ slots[k].author = RepoOwner(slots[k].item)
    /\ slots[k].title = MetaTitle(slots[k].item)
    /\ slots[k].description =
           IF RemoteMeta(slots[k].item) = "full"
           THEN MetaDescription(slots[k].item)
           ELSE RepoDescription(slots[k].item)
    /\ slots[k].icon =
           IF RemoteMeta(slots[k].item) = "full"
           THEN IconOf(slots[k].item)
           ELSE DefaultIcon

\* C10: after a page load in which the repository fetch failed for some items
\* and every fetch succeeded for the others, the others are fully populated,
\* each failed slot has an empty description and the status is "Page loaded!".
C10_PartialFailureStillLoads ==
    (/\ exception = "none"
     /\ FailedSlots # {}
     /\ \A k \in VisibleSlots \ FailedSlots : FullyFetched(k))
    => /\ \A k \in FailedSlots : slots[k].description = << >>
       /\ \A k \in VisibleSlots \ FailedSlots : FullyPopulated(k)
       /\ status_label = <<"Page loaded!">>

\* a load ended with one slot failed and others populated, one of them with
\* its own icon
C10_Witness ==
    /\ exception = "none"
    /\ FailedSlots # {}
    /\ \A k \in VisibleSlots \ FailedSlots : FullyFetched(k)
    /\ \E k \in VisibleSlots \ FailedSlots : RemoteMeta(slots[k].item) = "full"
    /\ \E k \in VisibleSlots \ FailedSlots : RemoteMeta(slots[k].item) = "title"

\* the path the icon of the slot's item is cached at
IconPath(k) == CachePath(RepoName(slots[k].item) \o <<"_">> \o IconFile, BmpExt)

\* the metadata of the slot's item names an icon, and the load either could not
\* fetch it or fetched a file that is no bitmap
IconUnusable(k) ==
    /\ ~slots[k].hidden
    /\ slots[k].meta_fetch = "ok"
    /\ RemoteMeta(slots[k].item) = "full"
    /\ \/ slots[k].icon_fetch = "failed"
       \/ IconPath(k) \in DOMAIN cache /\ cache[IconPath(k)].type # "bmp"

\* C11: when the metadata of an item names an icon and the icon cannot be
\* fetched or cannot be decoded, the slot shows the default icon and the load
\* goes on with the next item: no exception ends it.
C11_IconFailureFallsBack ==
    \A k \in DOMAIN slots :
        IconUnusable(k) => slots[k].icon = DefaultIcon /\ exception = "none"

\* C12: whatever the repository, metadata and icon requests of the items are
\* answered with, a load of the first page of a category that has items lets
\* no exception escape and ends with the status "Page loaded!".
C12_LoadNeverRaises ==
    [][ (/\ last_call'.op = "select_category"
         /\ ~SelectIgnored(last_call')
         /\ Len(Items(last_call'.name)) >= 1)
        => /\ exception' = "none"
           /\ pc' = "running"
           /\ status_label' = <<"Page loaded!">> ]_vars

\* C13: a lookup whose cache path already holds a file issues no request:
\* whenever a page is loaded, across all page loads and category changes, none
\* of the paths requested during the load held a file before it.
C13_CachedFileNeverRequested ==
    [][ (/\ ShowPageCalled(last_call')
         /\ ValidPage(RequestedPage(last_call'), RequestedCategory(last_call')))
        => \A path \in last_call'.requested : path \notin DOMAIN cache ]_vars

\* a category was loaded again, every lookup of the load found its file and
\* no request was issued
C13_Witness ==
    /\ exception = "none"
    /\ last_call.op = "select_category"
    /\ last_call.name = selected_category
    /\ last_call.category # selected_category
    /\ last_call.requested = {}
    /\ \E k \in VisibleSlots :
           /\ slots[k].repo_fetch = "ok"
           /\ slots[k].meta_fetch = "ok"
           /\ slots[k].icon_fetch = "ok"

\* the path the repository document of the application is cached at
RepositoryPath(full_name) == CachePath(RepositoryName(full_name), JsonExt)

\* the slots of the first page of the category, with the application of each
FirstPageSlots(category) ==
    {k \in DOMAIN slots : k < Len(Items(category))}

\* C14: a failed fetch is not remembered: when the repository fetch of an
\* item failed in the last load of the item (the request raised or its body
\* was malformed), the next load of the page with that item requests the
\* repository document again.
C14_FailedFetchRetried ==
    [][ (/\ last_call'.op = "select_category"
         /\ ~SelectIgnored(last_call')
         /\ exception' = "none")
        => \A k \in FirstPageSlots(last_call'.name) :
               (/\ slots[k].item = Items(last_call'.name)[k + 1]
                /\ slots[k].repo_fetch = "failed")
                   => RepositoryPath(slots[k].item)
                          \in last_call'.requested ]_vars

\* C15: every read of the serial buffer that holds an escape byte, whatever
\* else the buffer holds, resets the device.
C15_EscapeAlwaysResets ==
    [][ \A key \in KeyInputs :
            (HasEscape(key) /\ KeyboardRead(key)) => pc' = "reset" ]_vars

\* C16: a startup that finds the storage medium unmounted, or the catalog
\* unreachable or malformed (no JSON object mapping categories to lists),
\* resets the device with no category selected and no load started; every
\* other startup selects the first category and loads its first page (stated
\* for the first loads in which no request is answered with a fault).
C16_StartupResetsOrLoads ==
    [][ /\ (pc = "boot" /\ last_call'.op = "boot" /\ last_call'.name # "catalog")
            => /\ pc' = "reset"
               /\ selected_category' = NoCategory
               /\ wget_count' = 0
        /\ (pc = "loaded" /\ faults' = faults)
            => /\ pc' = "running"
               /\ selected_category' = applications.categories[1]
               /\ current_page' = 0
               /\ PageShown(slots', applications.categories[1], 0) ]_vars

-----------------------------------------------------------------------------
(* The title derivation of lines 445-448 on its own: applied to a repository *)
(* short name, and then to the title it gave.                                *)

\* a short name has at most this many words
MaxWords == 4

\* the words short names are made of; the empty word stands between two
\* separators that follow each other
Words ==
    { <<"f","r","u","i","t">>, <<"j","a","m">>, <<"j","a","m","m","e","r">>,
      <<"d","r","u","m">>, <<"m","a","c","h","i","n","e">>, <<"m","y">>,
      <<"c","o","o","l">>, <<"a","p","p">>, << >> }

Separators == {"-", "_"}

ShortNames ==
    { Join(ws, sep) : ws \in UNION {[1..n -> Words] : n \in 1..MaxWords},
                      sep \in Separators }

\* lines 445-448 applied to the text: the title, or the IndexError of word[0]
Derive(text) ==
    IF TitleRaises(text)
    THEN [raised |-> TRUE, text |-> << >>]
    ELSE [raised |-> FALSE, text |-> Title(text)]

TitleInit ==
    /\ short_name \in ShortNames
    /\ titles = << >>
    /\ pc = "off"
    /\ exception = "none"
    /\ SCALE = 1
    /\ catalog_doc = NoCatalog
    /\ installed_apps = {}
    /\ applications = NoCatalog
    /\ selected_category = NoCategory
    /\ current_page = 0
    /\ selected_application = NoApplication
    /\ category_selected = {}
    /\ category_group_hidden = FALSE
    /\ item_grid_hidden = FALSE
    /\ left_tg_hidden = FALSE
    /\ right_tg_hidden = FALSE
    /\ dialog_group_hidden = TRUE
    /\ dialog_content = <<"[content]">>
    /\ slots = << >>
    /\ status_label = <<"Loading...">>
    /\ page_label = <<0, 0>>
    /\ cache = << >>
    /\ faults = 0
    /\ wget_count = 0
    /\ mouse = FALSE
    /\ timeouts = 0
    /\ previous_mouse_state = FALSE
    /\ left_down = FALSE
    /\ last_call = NoCall
    /\ load = NoLoad

program == <<pc, exception, world, applications, session, mouse, timeouts,
             previous_mouse_state, left_down, last_call, load>>

\* the derivation is applied to the short name
DeriveTitle ==
    /\ pc = "off"
    /\ titles = << >>
    /\ titles' = <<Derive(short_name)>>
    /\ UNCHANGED <<short_name, program>>

\* the derivation is applied to the title it gave
DeriveAgain ==
    /\ pc = "off"
    /\ Len(titles) = 1
    /\ ~titles[1].raised
    /\ titles' = Append(titles, Derive(titles[1].text))
    /\ UNCHANGED <<short_name, program>>

TitleNext ==
    \/ DeriveTitle
    \/ DeriveAgain

TitleSpec == TitleInit /\ [][TitleNext]_vars

\* C17: the title derivation is idempotent: applied to the title it gave for
\* a repository short name it gives that title again; and it gives "Drum
\* Machine" for fruit-jam-drum-machine and "My Cool App" for my_cool_app.
C17_TitleIdempotent ==
    /\ Len(titles) = 2 => titles[2] = titles[1]
    /\ (Len(titles) >= 1
            /\ short_name = <<"f","r","u","i","t","-","j","a","m","-",
                              "d","r","u","m","-","m","a","c","h","i","n","e">>)
        => titles[1] = [raised |-> FALSE,
                        text |-> <<"D","r","u","m"," ","M","a","c","h","i","n","e">>]
    /\ (Len(titles) >= 1
            /\ short_name = <<"m","y","_","c","o","o","l","_","a","p","p">>)
        => titles[1] = [raised |-> FALSE,
                        text |-> <<"M","y"," ","C","o","o","l"," ","A","p","p">>]

\* the handlers a press may dispatch
HandlerOps ==
    {"select_application", "next_page", "previous_page", "select_category",
     "download_application", "deselect_application"}

\* the last step was a press of the left button that mouse_task saw
PressSeen(call) == call.op \in HandlerOps \cup {"nothing"}

\* C18: the pointer loop dispatches a handler only on the transition of the
\* left button from not pressed to pressed: never when the mouse had already
\* reported the button pressed and it has not been released since.
C18_ActsOnlyOnPressEdge ==
    [][ (pc = "running" /\ last_call'.op \in HandlerOps) => ~left_down ]_vars

\* C19: a press dispatches one handler, chosen in this order: with the dialog
\* hidden the item grid, else the right arrow, else the left arrow, else the
\* category button under the pointer; with the dialog visible only Yes and No,
\* so that the category, the page and the slots stay and no item is selected
\* while the dialog is visible.
C19_DispatchByPriority ==
    [][ (pc = "running" /\ PressSeen(last_call'))
        => LET p == last_call'.point
               op == last_call'.op
           IN  IF dialog_group_hidden
               THEN /\ op = "select_application" <=> p.cell # NoCell
                    /\ op = "next_page" <=> (p.cell = NoCell /\ p.right)
                    /\ op = "previous_page"
                           <=> (p.cell = NoCell /\ ~p.right /\ p.left)
                    /\ op = "select_category"
                           <=> (/\ p.cell = NoCell /\ ~p.right /\ ~p.left
                                /\ p.button # 0)
                    /\ op = "select_category"
                           => last_call'.name = categories[p.button]
                    /\ op = "select_application"
                           => last_call'.index = p.cell[2] * PAGE_COLUMNS + p.cell[1]
                    /\ op \notin {"download_application", "deselect_application"}
               ELSE /\ op = "download_application" <=> p.dialog = "yes"
                    /\ op = "deselect_application" <=> p.dialog = "no"
                    /\ op = "nothing" <=> p.dialog = "none"
                    /\ UNCHANGED <<selected_category, current_page, slots,
                                   wget_count>>
                    /\ selected_application' \in
                           {selected_application, NoApplication} ]_vars

\* with the dialog visible, a press on a cell of the grid, on an arrow and on
\* a category button dispatched nothing
C19_Witness ==
    /\ pc = "running"
    /\ ~dialog_group_hidden
    /\ last_call.op = "nothing"
    /\ last_call.point.cell # NoCell
    /\ last_call.point.right
    /\ last_call.point.button # 0

\* C20: the pointer loop gives up the mouse only when timeouts has reached 60,
\* and polls it no more once it has; timeouts counts the polls without update
\* one by one, every poll with an update and every detection sets it to zero;
\* and without a mouse the loop can always try the detection again.
C20_ReleaseAfterSixtyIdlePolls ==
    [][ (pc = "running" /\ pc' = "running")
        => /\ (mouse /\ ~mouse') => timeouts = MOUSE_TIMEOUTS
           /\ (mouse /\ timeouts = MOUSE_TIMEOUTS)
                  => /\ UNCHANGED <<session, timeouts, previous_mouse_state,
                                    left_down>>
                     /\ ~PressSeen(last_call')
           /\ timeouts' \in {timeouts, timeouts + 1, 0}
           /\ timeouts' = timeouts + 1
                  => /\ mouse /\ mouse'
                     /\ UNCHANGED <<session, previous_mouse_state, left_down>>
           /\ (\/ PressSeen(last_call')
               \/ previous_mouse_state' # previous_mouse_state
               \/ left_down' # left_down
               \/ mouse' /\ ~mouse)
                  => timeouts' = 0
           /\ ~mouse => ENABLED (MouseFound \/ MouseNotFound) ]_vars

\* the mouse was given up after 60 polls without update
C20_Witness ==
    /\ pc = "running"
    /\ ~mouse
    /\ timeouts = MOUSE_TIMEOUTS

-----------------------------------------------------------------------------
(* Claims on the totality of the title derivation, the cache paths, empty  *)
(* grid slots, and the order and atomicity of a page load.                  *)

\* C23: the title derivation is total: for every repository short name, with
\* consecutive, leading or trailing separators or made of separators only, it
\* gives a title and does not raise.
C23_TitleTotal ==
    Len(titles) >= 1 => ~titles[1].raised

\* the index select_application is called with for a press in the cell
\* (line 606)
CellIndex(cell) == cell[2] * PAGE_COLUMNS + cell[1]

\* C25: with the dialog hidden, a press on a grid slot that holds no item of
\* the current page (current_page * PAGE_SIZE + k is not an index of the
\* category) changes nothing: selected_application stays None, the dialog stays
\* hidden, the navigation stays visible, and the press dispatches
\* select_application and no other handler.
C25_PressOnEmptySlotDoesNothing ==
    [][ (/\ pc = "running"
         /\ dialog_group_hidden
         /\ last_call'.point.cell # NoCell
         /\ LET k == CellIndex(last_call'.point.cell)
            IN  \/ current_page * PAGE_SIZE + k < 0
                \/ current_page * PAGE_SIZE + k >= Len(Items(selected_category)))
        => /\ last_call'.op = "select_application"
           /\ selected_application = NoApplication
           /\ selected_application' = NoApplication
           /\ dialog_group_hidden'
           /\ NavigationVisible'
           /\ UNCHANGED session
           /\ pc' = "running" ]_vars

\* a press landed on an empty grid slot, at a point where an arrow and a
\* category button answer their hit tests as well
C25_Witness ==
    /\ pc = "running"
    /\ last_call.op = "select_application"
    /\ last_call.point.cell # NoCell
    /\ last_call.point.right
    /\ last_call.point.button # 0
    /\ last_call.page * PAGE_SIZE + last_call.index
           >= Len(Items(last_call.category))
    /\ dialog_group_hidden

\* the repositories the loaded catalog names
Repositories ==
    UNION {{Items(c)[i] : i \in 1..Len(Items(c))} : c \in CategoryNames}

\* the remote resources a load may fetch: for each repository its repository
\* document, its metadata document, and its icon when the metadata names one
Resources ==
    {[kind |-> "repo", src |-> f] : f \in Repositories}
        \cup {[kind |-> "meta", src |-> f] : f \in Repositories}
        \cup {[kind |-> "icon", src |-> f]
                 : f \in {g \in Repositories : RemoteMeta(g) = "full"}}

\* the cache path show_page has the resource stored at (lines 473, 491, 508)
ResourcePath(r) ==
    CASE r.kind = "repo" -> CachePath(RepositoryName(r.src), JsonExt)
      [] r.kind = "meta" -> CachePath(MetadataName(r.src), JsonExt)
      [] r.kind = "icon" -> CachePath(IconName(r), BmpExt)

\* a visible slot whose icon was loaded shows the icon of its own repository
SlotShowsOwnIcon(k) ==
    (~slots[k].hidden /\ slots[k].icon_fetch = "ok")
        => slots[k].icon = IconOf(slots[k].item)

\* C24: the cache paths are injective over the resources of the catalog's
\* repositories: two distinct resources (repository documents, metadata
\* documents, icons) never share a cache path, so that a slot never shows data
\* cached for another repository.
C24_CachePathsInjective ==
    /\ \A r1, r2 \in Resources : r1 # r2 => ResourcePath(r1) # ResourcePath(r2)
    /\ \A k \in DOMAIN slots : SlotShowsOwnIcon(k)

\* the positions of the network requests in a load's log
Requests(log) == {i \in 1..Len(log) : log[i].ev = "request"}

\* repository document, then metadata document, then icon
StageRank(kind) ==
    CASE kind = "repo" -> 1
      [] kind = "meta" -> 2
      [] kind = "icon" -> 3

\* where the category lists the repository
ItemIndex(category, full_name) ==
    CHOOSE i \in 1..Len(Items(category)) : Items(category)[i] = full_name

\* C21: during a page load the requests are issued in slot order and, for each
\* item, in the order repository document, metadata document, icon; and every
\* request comes right after a status-label update that names the item being
\* fetched, with no other request in between.
C21_FetchesInOrderAfterStatus ==
    [][ ShowPageCalled(last_call')
        => LET log == last_call'.log
               loaded == selected_category'
           IN  /\ \A i \in Requests(log) :
                     /\ i > 1
                     /\ log[i - 1].ev = "status"
                     /\ log[i - 1].item = log[i].item
               /\ \A i, j \in Requests(log) :
                     i < j =>
                       \/ ItemIndex(loaded, log[i].item)
                              < ItemIndex(loaded, log[j].item)
                       \/ /\ log[i].item = log[j].item
                          /\ StageRank(log[i].kind) < StageRank(log[j].kind) ]_vars

\* a load fetched the three documents of one item and then went on to fetch
\* for the next item
C21_Witness ==
    /\ ShowPageCalled(last_call)
    /\ \E i, j \in Requests(last_call.log) :
          /\ i < j
          /\ last_call.log[i].kind = "icon"
          /\ last_call.log[j].item # last_call.log[i].item
    /\ Cardinality(Requests(last_call.log)) >= 4

\* C22: a page load runs to its end without yielding to the event loop: while
\* a load is under way every step is a step of that load (or the
\* KeyboardInterrupt that ends the program), so no press and no keyboard byte
\* is processed, and selected_category, current_page and selected_application
\* do not change.
C22_LoadRunsToCompletion ==
    [][ load.active
        => /\ LoadItemStep \/ LoadReturn \/ Interrupt
           /\ UNCHANGED <<selected_category, current_page, selected_application>>
      ]_vars

\* a load is between two of its items
C22_Witness ==
    /\ pc = "running"
    /\ load.active
    /\ load.index > current_page * PAGE_SIZE
    /\ load.index < load.end

====
